---- MODULE Spec2Model ----
(***************************************************************************)
(* The AI gateway of the ManMitra FastAPI backend: GeminiService (rate     *)
(* window, daily quota, response cache, backoff), SafetyService            *)
(* (validation, crisis detection), BestieService.process_message and       *)
(* ModerationService.moderate_post, as state machines.                     *)
(*                                                                         *)
(* Texts are strings.  The source's non-ASCII characters cannot be written *)
(* in a string here: the bullet of the crisis messages is written "*", and *)
(* the Devanagari / Arabic-script topic keywords are left out (no prompt   *)
(* of the model contains a non-ASCII character, so they never match).      *)
(* Time is the value datetime.now() returns, in seconds; it never goes     *)
(* back.  hashlib.md5 is taken to be injective on the keys in play, so a   *)
(* cache key is the string that the source hashes.                         *)
(***************************************************************************)
EXTENDS Integers, Sequences, FiniteSets, TLC

VARIABLES
    gemini_service,     \* [Services -> the GeminiService object of that service]
    now,                \* the clock read by datetime.now()
    frame,              \* [Threads -> the handler running on that worker, and where it is]
    result,             \* [Threads -> what the last handler run there returned]
    admitted,           \* history: [Services -> the timestamps ever appended to request_timestamps]
    invoked,            \* history: [Services -> the instants of every model.generate_content call]
    generated,          \* history: [Services -> <<prompt, temperature>> :> the last text the
                        \*          model produced for it, when, and how many texts had
                        \*          been stored before that instant]
    stored              \* history: [Services -> how many texts _cache_response has stored
                        \*          (total), when it last did (at), and how many it had
                        \*          stored before that instant (before)]

vars == <<gemini_service, now, frame, result, admitted, invoked, generated, stored>>

-----------------------------------------------------------------------------
(* Python values *)

None == <<>>
Some(x) == <<x>>

\* bool(x) of an Optional[str]: None and "" are both false
Truthy(opt) == opt # None /\ opt[1] # ""

Min(a, b) == IF a <= b THEN a ELSE b

\* datetime.date(): the day a timestamp falls on
Date(t) == t \div (24 * 60 * 60)

-----------------------------------------------------------------------------
(* str operations *)

Contains(s, sub) == \E i \in 1..(Len(s) - Len(sub) + 1) : SubSeq(s, i, i + Len(sub) - 1) = sub

StartsWith(s, prefix) == Len(s) >= Len(prefix) /\ SubSeq(s, 1, Len(prefix)) = prefix

LowerChar(c) ==
    CASE c = "A" -> "a" [] c = "B" -> "b" [] c = "C" -> "c" [] c = "D" -> "d"
      [] c = "E" -> "e" [] c = "F" -> "f" [] c = "G" -> "g" [] c = "H" -> "h"
      [] c = "I" -> "i" [] c = "J" -> "j" [] c = "K" -> "k" [] c = "L" -> "l"
      [] c = "M" -> "m" [] c = "N" -> "n" [] c = "O" -> "o" [] c = "P" -> "p"
      [] c = "Q" -> "q" [] c = "R" -> "r" [] c = "S" -> "s" [] c = "T" -> "t"
      [] c = "U" -> "u" [] c = "V" -> "v" [] c = "W" -> "w" [] c = "X" -> "x"
      [] c = "Y" -> "y" [] c = "Z" -> "z" [] OTHER -> c

RECURSIVE Lower(_)
Lower(s) ==
    IF Len(s) = 0 THEN ""
    ELSE IF Len(s) = 1 THEN LowerChar(s)
    ELSE Lower(SubSeq(s, 1, Len(s) \div 2)) \o Lower(SubSeq(s, Len(s) \div 2 + 1, Len(s)))

IsSpace(c) == c \in {" ", "\t", "\n", "\r", "\f"}

RECURSIVE InkFrom(_, _, _)
\* the first index from i on, going by step, that holds no whitespace
\* (Len(s)+1 or 0 when there is none)
InkFrom(s, i, step) ==
    IF i < 1 \/ i > Len(s) \/ ~IsSpace(SubSeq(s, i, i)) THEN i
    ELSE InkFrom(s, i + step, step)

\* the first / last index of s that holds no whitespace
FirstInk(s) == InkFrom(s, 1, 1)

LastInk(s) == InkFrom(s, Len(s), -1)

\* str.strip()
Strip(s) == IF FirstInk(s) > LastInk(s) THEN "" ELSE SubSeq(s, FirstInk(s), LastInk(s))

\* any(word in text for word in words)
AnyIn(words, text) == \E i \in 1..Len(words) : Contains(text, words[i])

\* random.choice(seq), rnd being the draw
Choice(seq, rnd) == seq[(rnd % Len(seq)) + 1]

-----------------------------------------------------------------------------
(* GeminiService: configuration *)

requests_per_minute == 10
max_tokens_per_day == 50000
cache_ttl == 3600
CacheCapacity == 100
WindowSeconds == 60

\* f"{temperature}" of the two temperatures the services use, given in tenths
FormatTemperature(temperature) ==
    CASE temperature = 7 -> "0.7"
      [] temperature = 2 -> "0.2"

\* the key built from the prompt alone
get_cache_key_PromptOnly(prompt, temperature) == prompt

get_cache_key(prompt, temperature) == prompt \o "_" \o FormatTemperature(temperature)

\* GeminiService.__init__ at instant t, with or without an API key
NewGeminiService(configured, t) ==
    [ model                |-> configured,
      request_timestamps   |-> <<>>,
      daily_token_count    |-> 0,
      last_reset_date      |-> Date(t),
      response_cache       |-> <<>>,
      backoff_until        |-> None,
      consecutive_failures |-> 0 ]

-----------------------------------------------------------------------------
(* FallbackResponder *)

AnxietyWords == <<"anxious", "worried", "panic", "overwhelmed", "stressed", "tension">>
SadnessWords == <<"sad", "depressed", "down", "hopeless", "empty", "udaas">>
AcademicWords == <<"study", "exam", "academic", "pressure", "grades", "padhai", "imtihaan">>

AnxietyResponses == <<
    "Yaar, I can tell you're feeling anxious right now. Let's try this first-aid technique: Take 4 deep breaths - in for 4, hold for 4, out for 4. What's causing this stress, bro?",
    "Bhai, anxiety feels overwhelming na? Try the 5-4-3-2-1 technique: Name 5 things you see, 4 you can touch, 3 you hear, 2 you smell, 1 you taste. Kya specific thing is worrying you?",
    "Dude, that anxiety is real but manageable. Quick tip: Put your hand on your chest, feel your heartbeat, breathe with it. Now tell me what's the main stressor?",
    "Hey yaar, anxiety attack? Try cold water on your wrists or drink some water slowly. Main hoon na - what's weighing heavy on your mind right now?" >>

SadnessResponses == <<
    "Bro, sounds like you're going through a tough time. Quick first-aid: Try to get some sunlight or bright light, even for 10 minutes. Your feelings are valid - what's been happening?",
    "Yaar, I can hear you're struggling. First-aid tip: Do one small thing you normally enjoy - chai, music, calling a friend. Kab se feeling this way?",
    "Bhai, those heavy feelings are real. Try this: Write down 3 small things you're grateful for today. Main yahan hoon - what's been the hardest part?",
    "Dude, when feeling low, movement helps - even 5 minutes walking. Your feelings matter, no judgment here. Kya specifically going on?" >>

AcademicResponses == <<
    "Yaar, academic pressure is real. First-aid tip: Break your study into 25-min chunks with 5-min breaks (Pomodoro). Your worth isn't your grades, bro. Which subject is stressing you most?",
    "Bhai, exam stress is tough! Try this: Study for 45 mins, then do something fun for 15 mins. You're doing your best - what's the biggest challenge abhi?",
    "Dude, study pressure getting to you? Quick tip: Make a simple today-only to-do list with just 3 tasks. Sab students feel this - what would help you feel more prepared?",
    "Bro, studies overwhelming you? Try the 2-minute rule: If it takes less than 2 mins, do it now. You're more than your marks - kya specifically bothering you?" >>

GeneralResponses == <<
    "Thanks for sharing that with me, yaar. Your feelings are completely valid. What's been on your mind lately?",
    "Bro, I can hear this is important to you. What would be most helpful to talk about right now?",
    "Takes courage to reach out, dude. I'm glad you're here. Kaisa feeling today?",
    "Yaar, that sounds like a lot to handle. What's been the most challenging part for you?",
    "I'm here to listen and support you, bhai. What's weighing on your dil right now?",
    "That sounds tough to deal with, bro. You don't have to face this alone. Kya chal raha hai?",
    "Hey yaar, main sun raha hoon. Whatever it is, we can talk through it. What's going on?" >>

\* the template pool, were the academic words looked for first
FallbackPool_AcademicFirst(prompt_lower) ==
    IF AnyIn(AcademicWords, prompt_lower) THEN AcademicResponses
    ELSE IF AnyIn(AnxietyWords, prompt_lower) THEN AnxietyResponses
    ELSE IF AnyIn(SadnessWords, prompt_lower) THEN SadnessResponses
    ELSE GeneralResponses

\* the template pool of the first category with a keyword in the lower-cased prompt
FallbackPool(prompt_lower) ==
    IF AnyIn(AnxietyWords, prompt_lower) THEN AnxietyResponses
    ELSE IF AnyIn(SadnessWords, prompt_lower) THEN SadnessResponses
    ELSE IF AnyIn(AcademicWords, prompt_lower) THEN AcademicResponses
    ELSE GeneralResponses

generate_fallback_response(prompt, rnd) ==
    CHOOSE text \in { Choice(FallbackPool(prompt_lower), rnd) : prompt_lower \in {Lower(prompt)} } : TRUE

Range(seq) == { seq[i] : i \in 1..Len(seq) }

FallbackTemplates ==
    Range(AnxietyResponses) \cup Range(SadnessResponses)
        \cup Range(AcademicResponses) \cup Range(GeneralResponses)

-----------------------------------------------------------------------------
(* ResponseCache: response_cache is a dict; its iteration order is the order *)
(* in which the keys were first inserted, so it is a sequence of entries.    *)

CacheKeys(cache) == { cache[i].key : i \in 1..Len(cache) }

\* the position of key in the dict, 0 when it is not there
CacheIndex(cache, key) ==
    IF key \in CacheKeys(cache) THEN CHOOSE i \in 1..Len(cache) : cache[i].key = key ELSE 0

\* del cache[key] for the key at position i
CacheDelete(cache, i) == SubSeq(cache, 1, i - 1) \o SubSeq(cache, i + 1, Len(cache))

\* the lifetime compared in minutes instead of seconds
CacheExpired_InMinutes(entry, t) == t - entry.timestamp > cache_ttl \div 60

\* an entry that never expires
CacheExpired_Never(entry, t) == FALSE

\* datetime.now() - cached_data['timestamp'] > timedelta(seconds=self.cache_ttl)
CacheExpired(entry, t) == t - entry.timestamp > cache_ttl

\* _get_cached_response: the value returned and the cache it leaves
get_cached_response(cache, cache_key, t) ==
    IF CacheIndex(cache, cache_key) = 0
    THEN [value |-> None, cache |-> cache]
    ELSE IF CacheExpired(cache[CacheIndex(cache, cache_key)], t)
         THEN [value |-> None, cache |-> CacheDelete(cache, CacheIndex(cache, cache_key))]
         ELSE [value |-> Some(cache[CacheIndex(cache, cache_key)].response), cache |-> cache]

\* the key that was inserted first, whatever its timestamp
OldestIndex_FirstInserted(cache) == 1

\* min(keys, key=timestamp): the first key, in iteration order, of least timestamp
OldestIndex(cache) ==
    CHOOSE i \in 1..Len(cache) :
        /\ \A j \in 1..Len(cache) : cache[i].timestamp <= cache[j].timestamp
        /\ \A j \in 1..(i - 1) : cache[j].timestamp > cache[i].timestamp

\* self.response_cache[cache_key] = {...}: an existing key keeps its position
CacheStore(cache, cache_key, response, t) ==
    IF CacheIndex(cache, cache_key) = 0
    THEN Append(cache, [key |-> cache_key, response |-> response, timestamp |-> t])
    ELSE [cache EXCEPT ![CacheIndex(cache, cache_key)] =
             [key |-> cache_key, response |-> response, timestamp |-> t]]

\* the cache never trimmed
CacheTrim_Never(cache) == cache

\* if len(self.response_cache) > 100: del the oldest
CacheTrim(cache) ==
    IF Len(cache) > CacheCapacity THEN CacheDelete(cache, OldestIndex(cache)) ELSE cache

\* _cache_response
cache_response(cache, cache_key, response, t) ==
    CacheTrim(CacheStore(cache, cache_key, response, t))

-----------------------------------------------------------------------------
(* RateLimiter, QuotaTracker, BackoffController *)

\* InBackoff with the test of the backoff left out
InBackoff_Never(g, t) == FALSE

\* self.backoff_until and now < self.backoff_until
InBackoff(g, t) == g.backoff_until # None /\ t < g.backoff_until[1]

\* [ts for ts in self.request_timestamps if ts > cutoff]
PurgeOld(timestamps, t) == SelectSeq(timestamps, LAMBDA ts : ts > t - WindowSeconds)

\* RateExceeded with the comparison off by one
RateExceeded_OffByOne(timestamps) == Len(timestamps) > requests_per_minute

\* len(self.request_timestamps) >= self.requests_per_minute
RateExceeded(timestamps) == Len(timestamps) >= requests_per_minute

\* if now.date() > self.last_reset_date: reset the daily counter
DailyReset(g, t) ==
    IF Date(t) > g.last_reset_date
    THEN [g EXCEPT !.daily_token_count = 0, !.last_reset_date = Date(t)]
    ELSE g

\* _check_rate_limit returning from the backoff test before the daily reset
check_rate_limit_BackoffFirst(g, t) ==
    IF InBackoff(g, t)
    THEN [ok |-> FALSE, g |-> g]
    ELSE [ok |-> ~RateExceeded(PurgeOld(g.request_timestamps, t)),
          g  |-> [DailyReset(g, t) EXCEPT !.request_timestamps = PurgeOld(@, t)]]

\* _check_rate_limit at instant t: the bool returned and the object it leaves
check_rate_limit(g, t) ==
    IF InBackoff(DailyReset(g, t), t)
    THEN [ok |-> FALSE, g |-> DailyReset(g, t)]
    ELSE [ok |-> ~RateExceeded(PurgeOld(g.request_timestamps, t)),
          g  |-> [DailyReset(g, t) EXCEPT !.request_timestamps = PurgeOld(@, t)]]

\* len(prompt) // 4 + 150
EstimateTokens(prompt) == Len(prompt) \div 4 + 150

\* the quota test letting through a call that reaches the limit exactly
QuotaExceeded_Strict(g, estimated_tokens) ==
    g.daily_token_count + estimated_tokens > max_tokens_per_day

\* the quota test looking at the tokens already spent only
QuotaExceeded_SpentOnly(g, estimated_tokens) ==
    g.daily_token_count >= max_tokens_per_day

\* self.daily_token_count + estimated_tokens >= self.max_tokens_per_day
QuotaExceeded(g, estimated_tokens) ==
    g.daily_token_count + estimated_tokens >= max_tokens_per_day

\* the except clause's test for a quota / rate-limit error
IsRateLimitError(error_str) ==
    \/ Contains(Lower(error_str), "quota")
    \/ Contains(error_str, "429")
    \/ Contains(Lower(error_str), "rate")

\* the exponential backoff without its ceiling
BackoffSeconds_Uncapped(error_str, failures) ==
    IF Contains(error_str, "retry_delay") \/ Contains(error_str, "30")
    THEN 35
    ELSE 2 ^ failures * 30

\* the backoff of _handle_rate_limit_error after `failures` consecutive failures
BackoffSeconds(error_str, failures) ==
    IF Contains(error_str, "retry_delay") \/ Contains(error_str, "30")
    THEN 35
    ELSE Min(2 ^ failures * 30, 600)

\* the backoff computed from the count before its increment
handle_rate_limit_error_BeforeIncrement(g, error_str, t) ==
    [g EXCEPT !.consecutive_failures = @ + 1,
              !.backoff_until = Some(t + BackoffSeconds(error_str, g.consecutive_failures))]

\* _handle_rate_limit_error at instant t
handle_rate_limit_error(g, error_str, t) ==
    [g EXCEPT !.consecutive_failures = @ + 1,
              !.backoff_until = Some(t + BackoffSeconds(error_str, g.consecutive_failures + 1))]

\* get_api_status, lines 125-144: the service after the call (old timestamps are
\* dropped) and the dict returned
get_api_status(g, t) ==
    LET request_timestamps == PurgeOld(g.request_timestamps, t)
    IN  [ g      |-> [g EXCEPT !.request_timestamps = request_timestamps],
          status |-> [ api_key_configured        |-> g.model,
                       requests_this_minute      |-> Len(request_timestamps),
                       requests_per_minute_limit |-> requests_per_minute,
                       tokens_used_today         |-> g.daily_token_count,
                       daily_token_limit         |-> max_tokens_per_day,
                       in_backoff                |-> g.backoff_until # None /\ t < g.backoff_until[1],
                       backoff_until             |-> g.backoff_until,
                       consecutive_failures      |-> g.consecutive_failures,
                       cache_size                |-> Len(g.response_cache),
                       quota_exhausted           |-> g.daily_token_count >= max_tokens_per_day ] ]

\* the endpoint reset_rate_limits of status.py, lines 69-74
reset_rate_limits(g) ==
    [g EXCEPT !.request_timestamps = <<>>, !.backoff_until = None, !.consecutive_failures = 0]

-----------------------------------------------------------------------------
(* SafetyService *)

MAX_MESSAGE_LENGTH == 2000

\* settings.crisis_keywords_list for the default CRISIS_KEYWORDS
crisis_keywords == <<
    "suicide", "kill myself", "end it", "don't want to live", "self harm", "hurt myself",
    "die", "death", "dead", "not worth living", "better off dead", "end my life" >>

high_severity_keywords == <<
    "suicide", "kill myself", "end it", "don't want to live", "self harm", "hurt myself" >>

\* the medium tier without "dead"
medium_severity_keywords_WithoutDead == <<
    "die", "death", "not worth living", "better off dead", "end my life" >>

medium_severity_keywords == <<
    "die", "death", "dead", "not worth living", "better off dead", "end my life" >>

\* validate_message measuring the message before it is stripped
validate_message_LengthBeforeStrip(message) ==
    IF message = "" \/ Len(Strip(message)) = 0
    THEN [is_valid |-> FALSE, reason |-> "Message cannot be empty", sanitized_text |-> ""]
    ELSE IF Len(message) > MAX_MESSAGE_LENGTH
         THEN [is_valid |-> FALSE,
               reason |-> "Message too long (max 2000 characters)",
               sanitized_text |-> IF Len(Strip(message)) > MAX_MESSAGE_LENGTH
                                  THEN SubSeq(Strip(message), 1, MAX_MESSAGE_LENGTH)
                                  ELSE Strip(message)]
         ELSE [is_valid |-> TRUE, reason |-> "Message is valid", sanitized_text |-> Strip(message)]

validate_message(message) ==
    IF message = "" \/ Len(Strip(message)) = 0
    THEN [is_valid |-> FALSE, reason |-> "Message cannot be empty", sanitized_text |-> ""]
    ELSE IF Len(Strip(message)) > MAX_MESSAGE_LENGTH
         THEN [is_valid |-> FALSE,
               reason |-> "Message too long (max 2000 characters)",
               sanitized_text |-> SubSeq(Strip(message), 1, MAX_MESSAGE_LENGTH)]
         ELSE [is_valid |-> TRUE, reason |-> "Message is valid", sanitized_text |-> Strip(message)]

\* the severity, were the medium tier looked at before the high one
CrisisSeverity_MediumFirst(message_lower) ==
    IF AnyIn(medium_severity_keywords, message_lower) THEN "medium"
    ELSE IF AnyIn(high_severity_keywords, message_lower) THEN "high"
    ELSE "low"

\* the severity detect_crisis gives a lower-cased message that matched a keyword
CrisisSeverity(message_lower) ==
    IF AnyIn(high_severity_keywords, message_lower) THEN "high"
    ELSE IF AnyIn(medium_severity_keywords, message_lower) THEN "medium"
    ELSE "low"

\* detect_crisis on an already lower-cased message, for a service whose
\* self.crisis_keywords is keywords
DetectLower(keywords, message_lower) ==
    LET matched_patterns ==
            SelectSeq(keywords, LAMBDA kw : Contains(message_lower, Lower(kw)))
    IN  IF matched_patterns = <<>>
        THEN [is_crisis |-> FALSE, severity |-> "none", matched_patterns |-> <<>>]
        ELSE [is_crisis |-> TRUE,
              severity |-> CrisisSeverity(message_lower),
              matched_patterns |-> matched_patterns]

\* SafetyService.detect_crisis of a service constructed with the keyword list keywords
detect_crisis_with(keywords, message) == DetectLower(keywords, Lower(message))

\* detect_crisis of the service constructed with the default settings
detect_crisis(message) == detect_crisis_with(crisis_keywords, message)

-----------------------------------------------------------------------------
(* BestieService *)

CrisisHigh == "I'm really concerned about what you're telling me. It sounds like you're going through an incredibly difficult time right now. \n\nYour life has value, and there are people who care about you and want to help. Please reach out to a crisis helpline or emergency services immediately:\n\n* KIRAN Mental Health Helpline: 1800-599-0019 (24/7)\n* Emergency Services: 112\n* Tele-MANAS: 104\n\nYou don't have to face this alone. There is help available, and things can get better."

CrisisMedium == "I can hear that you're really struggling right now, and I'm worried about you. These feelings are valid, and it's important that you get support.\n\nPlease consider reaching out to:\n* A trusted friend or family member\n* A counselor or mental health professional\n* KIRAN Helpline: 1800-599-0019\n\nYou deserve support and care. Please don't hesitate to reach out for help."

CrisisLow == "I can sense that you're going through a tough time. It's okay to feel overwhelmed sometimes.\n\nIf you'd like to talk to someone who can provide more support, I'd encourage you to consider speaking with a counselor or reaching out to the KIRAN helpline at 1800-599-0019.\n\nYou're not alone in this, and there are people who want to help."

\* the dict _handle_crisis_response returns
handle_crisis_response(crisis_detection) ==
    [ response        |-> CASE crisis_detection.severity = "high" -> CrisisHigh
                            [] crisis_detection.severity = "medium" -> CrisisMedium
                            [] OTHER -> CrisisLow,
      agent           |-> "crisis",
      crisis_detected |-> TRUE,
      crisis_level    |-> Some(crisis_detection.severity),
      type            |-> "crisis",
      matched_patterns |-> crisis_detection.matched_patterns ]

\* the dict process_message returns for a message that fails validation
ValidationErrorResult(validation) ==
    [ type             |-> "error",
      message          |-> "Invalid message: " \o validation.reason,
      validation_error |-> TRUE ]

\* the dict process_message returns around a generated response
ChatResult(response) ==
    [ response        |-> response,
      agent           |-> "listener",
      crisis_detected |-> FALSE,
      crisis_level    |-> None,
      type            |-> "chat" ]

RECURSIVE Join(_, _)
\* sep.join(lines)
Join(lines, sep) ==
    IF Len(lines) = 0 THEN ""
    ELSE IF Len(lines) = 1 THEN lines[1]
    ELSE lines[1] \o sep \o Join(Tail(lines), sep)

PromptPreamble == <<
    "You are Bestie, an AI-guided first-aid mental health support companion for students.",
    "Role: Provide immediate emotional first-aid, practical coping strategies, and refer to professionals when needed.",
    "Personality: Supportive bro who's got your back - understanding, real, and helpful with practical solutions.",
    "Language: Mix English, Hindi, Hinglish, Urdu, Roman Urdu naturally. Use bro terms like 'bhai', 'yaar', 'dude', 'bro'.",
    "First-Aid Focus: Offer 1-2 practical coping strategies, validate feelings, provide immediate support.",
    "Boundaries: You're first-aid support, not therapy. Refer to counselors for complex issues. Never diagnose." >>

\* history[-3:]
LastThree(history) ==
    IF Len(history) <= 3 THEN history ELSE SubSeq(history, Len(history) - 2, Len(history))

\* context_lines of _generate_simple_response; topic is an Optional[str]
ContextLines(history, topic) ==
    (IF Truthy(topic) THEN << "Topic: " \o topic[1] >> ELSE <<>>)
    \o (IF Len(history) > 0
        THEN << "Recent conversation:" >>
             \o [i \in 1..Len(LastThree(history)) |->
                    LastThree(history)[i].role \o ": " \o LastThree(history)[i].content]
        ELSE <<>>)

\* full_prompt of _generate_simple_response
ChatPrompt(message, history, topic) ==
    Join(PromptPreamble
         \o (IF Len(ContextLines(history, topic)) > 0
             THEN << "\n" \o Join(ContextLines(history, topic), "\n") >>
             ELSE <<>>)
         \o << "\nUser: " \o message, "\nBestie: " >>,
         "\n")

\* the clean-up of the generated text in _generate_simple_response
CleanResponse(response) ==
    IF StartsWith(Strip(response), "Bestie:")
    THEN Strip(SubSeq(Strip(response), 8, Len(Strip(response))))
    ELSE Strip(response)

-----------------------------------------------------------------------------
(* ModerationService *)

toxic_keywords == <<
    "hate", "kill", "die", "abuse", "fuck", "shit", "bitch", "asshole",
    "suicide", "harm", "violence", "threat", "bomb", "attack" >>

ModerationPrompt(text) ==
    "Analyze this text for a student mental health forum:\n\n\"" \o text
    \o "\"\n\nIs this appropriate? Consider: toxicity, self-harm promotion, harassment.\nRespond ONLY with JSON: {\"decision\": \"allow\" or \"block\", \"confidence\": 0.0-1.0, \"reason\": \"brief explanation\"}"

\* _fallback_moderation; a confidence is written in hundredths
fallback_moderation(text) ==
    IF AnyIn(toxic_keywords, Lower(text))
    THEN [decision |-> "block", confidence |-> 80,
          reason |-> "Contains potentially harmful or inappropriate language",
          method |-> "rule_based"]
    ELSE [decision |-> "allow", confidence |-> 80,
          reason |-> "No issues detected", method |-> "rule_based"]

JsonBlock == "{\"decision\": \"block\", \"confidence\": 0.9, \"reason\": \"toxic\"}"
JsonDecisionOnly == "{\"decision\": \"block\"}"
JsonEmptyObject == "{}"
JsonArray == "[\"allow\"]"
JsonReview == "{\"decision\": \"review\", \"confidence\": 1.5, \"reason\": \"unsure\"}"

\* json.loads on the texts the model of this module can return: the dict decoded
\* (a missing key is None; a JSON value that is no object has no dict), or a
\* JSONDecodeError for a text that is no JSON
json_loads(text) ==
    CASE text = JsonBlock ->
            [error |-> FALSE,
             dict  |-> [decision |-> Some("block"), confidence |-> Some(90), reason |-> Some("toxic")]]
      [] text = JsonDecisionOnly ->
            [error |-> FALSE,
             dict  |-> [decision |-> Some("block"), confidence |-> None, reason |-> None]]
      [] text = JsonEmptyObject ->
            [error |-> FALSE,
             dict  |-> [decision |-> None, confidence |-> None, reason |-> None]]
      [] text = JsonArray -> [error |-> FALSE, dict |-> None]
      [] text = JsonReview ->
            [error |-> FALSE,
             dict  |-> [decision |-> Some("review"), confidence |-> Some(150),
                        reason |-> Some("unsure")]]
      [] OTHER -> [error |-> TRUE, dict |-> None]

\* dict.get(key, default)
Get(opt, default) == IF opt = None THEN default ELSE opt[1]

\* what moderate_post makes of the text the gateway returned: the inner except
\* takes the JSONDecodeError, the outer one the AttributeError of .get on a
\* value that is no dict
ModerationResult(text, response) ==
    LET moderation_result == json_loads(Strip(response))
    IN  IF moderation_result.error \/ moderation_result.dict = None
        THEN fallback_moderation(text)
        ELSE [decision   |-> Get(moderation_result.dict.decision, "allow"),
              confidence |-> Get(moderation_result.dict.confidence, 50),
              reason     |-> Get(moderation_result.dict.reason, "AI moderation analysis"),
              method     |-> "gemini"]

-----------------------------------------------------------------------------
(* Handlers.  A frame is one run of generate_response on a worker thread,  *)
(* with the handler (op) that called it: generate_response itself,          *)
(* process_message or moderate_post.  pc is where the run is:               *)
(*   "check"  before _check_rate_limit                                      *)
(*   "append" admitted, before request_timestamps.append                    *)
(*   "wait"   model.generate_content called, no answer yet                  *)
(*   "return" about to return ret (source: cache, model or fallback)        *)
(* input is what the handler was given, outcome how the model call ended,  *)
(* tokens_at_check the daily_token_count the quota test read.  start_time, *)
(* admitted_at,                                                             *)
(* call_time, prior, stored_before, cached_at and in_backoff record what    *)
(* the run saw; they are read by no step.                                   *)

Services == {"bestie", "moderation"}

NThreads == 2
Threads == 1..NThreads

IdleFrame ==
    [ pc |-> "idle", op |-> "", svc |-> "", prompt |-> "", temperature |-> 0,
      cache_key |-> "", input |-> "", arg |-> "", estimated_tokens |-> 0,
      start_time |-> 0, admitted_at |-> None, call_time |-> None,
      prior |-> None, stored_before |-> 0, cached_at |-> None, in_backoff |-> FALSE,
      tokens_at_check |-> 0, outcome |-> None,
      source |-> "none", ret |-> "", raised |-> FALSE ]

NoResult == [call |-> IdleFrame, value |-> None]

\* the frame of a call of generate_response(prompt, temperature) made for handler op
NewFrame(op, s, prompt, temperature, arg) ==
    [ IdleFrame EXCEPT
        !.pc = "start", !.op = op, !.svc = s, !.prompt = prompt,
        !.temperature = temperature, !.arg = arg,
        !.cache_key = get_cache_key(prompt, temperature),
        !.start_time = now,
        !.prior = IF <<prompt, temperature>> \in DOMAIN generated[s]
                  THEN Some(generated[s][<<prompt, temperature>>])
                  ELSE None,
        !.stored_before = stored[s].total,
        !.cached_at =
            IF \E i \in 1..Len(gemini_service[s].response_cache) :
                   gemini_service[s].response_cache[i].key = get_cache_key(prompt, temperature)
            THEN Some((CHOOSE e \in Range(gemini_service[s].response_cache) :
                           e.key = get_cache_key(prompt, temperature)).timestamp)
            ELSE None,
        !.in_backoff = /\ gemini_service[s].backoff_until # None
                       /\ now < gemini_service[s].backoff_until[1] ]

\* return text
Return(g, f, source, text) ==
    [g |-> g, f |-> [f EXCEPT !.pc = "return", !.source = source, !.ret = text]]

Goto(g, f, pc) == [g |-> g, f |-> [f EXCEPT !.pc = pc]]

\* generate_response, lines 149-156: no model, or the cache
start_response_BackoffFirst(g, f, t, rnd) ==
    IF ~g.model \/ InBackoff(g, t)
    THEN Return(g, f, "fallback", generate_fallback_response(f.prompt, rnd))
    ELSE LET cached_response == get_cached_response(g.response_cache, f.cache_key, t)
         IN  IF Truthy(cached_response.value)
             THEN Return([g EXCEPT !.response_cache = cached_response.cache],
                         f, "cache", cached_response.value[1])
             ELSE Goto([g EXCEPT !.response_cache = cached_response.cache], f, "check")

start_response(g, f, t, rnd) ==
    IF ~g.model
    THEN Return(g, f, "fallback", generate_fallback_response(f.prompt, rnd))
    ELSE LET cached_response == get_cached_response(g.response_cache, f.cache_key, t)
         IN  IF Truthy(cached_response.value)
             THEN Return([g EXCEPT !.response_cache = cached_response.cache],
                         f, "cache", cached_response.value[1])
             ELSE Goto([g EXCEPT !.response_cache = cached_response.cache], f, "check")

\* generate_response, lines 158-161: the admission check
check_step(g, f, t, rnd) ==
    LET checked == check_rate_limit(g, t)
    IN  IF checked.ok
        THEN Goto(checked.g, f, "append")
        ELSE Return(checked.g, f, "fallback", generate_fallback_response(f.prompt, rnd))

\* generate_response, lines 163-183: the timestamp, the quota check, the model call
append_step(g, f, t, rnd) ==
    IF QuotaExceeded(g, EstimateTokens(f.prompt))
    THEN Return([g EXCEPT !.request_timestamps = Append(@, t)],
                [f EXCEPT !.admitted_at = Some(t), !.tokens_at_check = g.daily_token_count],
                "fallback", generate_fallback_response(f.prompt, rnd))
    ELSE Goto([g EXCEPT !.request_timestamps = Append(@, t)],
              [f EXCEPT !.admitted_at = Some(t), !.call_time = Some(t),
                        !.tokens_at_check = g.daily_token_count,
                        !.estimated_tokens = EstimateTokens(f.prompt)],
              "wait")

\* the except clause letting an error that is no rate-limit error through
except_handler_Reraise(g, f, error_str, t, rnd) ==
    IF IsRateLimitError(error_str)
    THEN Return(handle_rate_limit_error(g, error_str, t), f, "fallback",
                generate_fallback_response(f.prompt, rnd))
    ELSE [g |-> g, f |-> [f EXCEPT !.pc = "return", !.raised = TRUE]]

\* generate_response, lines 197-205: the except clause
except_handler(g, f, error_str, t, rnd) ==
    Return(IF IsRateLimitError(error_str) THEN handle_rate_limit_error(g, error_str, t) ELSE g,
           f, "fallback", generate_fallback_response(f.prompt, rnd))

\* lines 185-187: the bookkeeping after generate_content returned
RecordSuccess(g, f) ==
    [g EXCEPT !.daily_token_count = @ + f.estimated_tokens, !.consecutive_failures = 0]

\* generate_response, lines 175-205, once the model call has ended with outcome o:
\*   [kind |-> "text", text]        generate_content returned, response.text is text
\*   [kind |-> "error", msg]        generate_content raised
\*   [kind |-> "text_error", msg]   generate_content returned, response.text raised
finish_response(g, f, o, t, rnd) ==
    CASE o.kind = "error" ->
            except_handler(g, [f EXCEPT !.outcome = Some(o)], o.msg, t, rnd)
      [] o.kind = "text_error" ->
            except_handler(RecordSuccess(g, f), [f EXCEPT !.outcome = Some(o)], o.msg, t, rnd)
      [] OTHER ->
            Return([RecordSuccess(g, f) EXCEPT !.response_cache =
                        cache_response(@, f.cache_key, o.text, t)],
                   [f EXCEPT !.outcome = Some(o)], "model", o.text)

\* start, check and append without a break, as one thread runs them
run_to_call(g, f, t, rnd) ==
    LET looked  == start_response(g, f, t, rnd)
        checked == check_step(looked.g, f, t, rnd)
    IN  IF looked.f.pc # "check" THEN looked
        ELSE IF checked.f.pc # "append" THEN checked
        ELSE append_step(checked.g, f, t, rnd)

\* what the handler that called generate_response returns to its own caller
Complete(f, rnd) ==
    [ call  |-> f,
      value |-> CASE f.op = "process_message" ->
                        IF f.raised
                        THEN ChatResult(generate_fallback_response(f.arg, rnd))
                        ELSE ChatResult(CleanResponse(f.ret))
                  [] f.op = "moderate_post" ->
                        IF f.raised
                        THEN fallback_moderation(f.arg)
                        ELSE ModerationResult(f.arg, f.ret)
                  [] OTHER -> IF f.raised THEN None ELSE Some(f.ret) ]

\* the history of stores after one more, at instant t
Store(h, t) ==
    [ total  |-> h.total + 1,
      at     |-> t,
      before |-> IF t = h.at THEN h.before ELSE h.total ]

\* the function fn with key k set to v
Put(fn, k, v) == [x \in DOMAIN fn \cup {k} |-> IF x = k THEN v ELSE fn[x]]

\* the state after thread th went from frame old to c.f, leaving the service as c.g
Advance(th, old, c, rnd) ==
    /\ gemini_service' = [gemini_service EXCEPT ![c.f.svc] = c.g]
    /\ admitted' = IF old.admitted_at = None /\ c.f.admitted_at # None
                   THEN [admitted EXCEPT ![c.f.svc] = Append(@, c.f.admitted_at[1])]
                   ELSE admitted
    /\ invoked' = IF old.call_time = None /\ c.f.call_time # None
                  THEN [invoked EXCEPT ![c.f.svc] = Append(@, c.f.call_time[1])]
                  ELSE invoked
    /\ generated' = IF c.f.pc = "return" /\ c.f.source = "model"
                    THEN [generated EXCEPT ![c.f.svc] =
                             Put(@, <<c.f.prompt, c.f.temperature>>,
                                 [text |-> c.f.ret, time |-> now,
                                  before |-> Store(stored[c.f.svc], now).before])]
                    ELSE generated
    /\ stored' = IF c.f.pc = "return" /\ c.f.source = "model"
                 THEN [stored EXCEPT ![c.f.svc] = Store(@, now)]
                 ELSE stored
    /\ IF c.f.pc = "return"
       THEN /\ frame' = [frame EXCEPT ![th] = IdleFrame]
            /\ result' = [result EXCEPT ![th] = Complete(c.f, rnd)]
       ELSE /\ frame' = [frame EXCEPT ![th] = c.f]
            /\ result' = result
    /\ now' = now

-----------------------------------------------------------------------------
(* Actions *)

\* generate_response(prompt, temperature) on service s, up to the model call
Respond(th, s, prompt, temperature, rnd) ==
    /\ frame[th].pc = "idle"
    /\ Advance(th, IdleFrame,
               run_to_call(gemini_service[s],
                           NewFrame("generate_response", s, prompt, temperature, ""),
                           now, rnd),
               rnd)

\* process_message treating no message as a crisis
crisis_branch_Skipped(crisis_detection) == FALSE

\* process_message, line 285: if crisis_detection["is_crisis"]
crisis_branch(crisis_detection) == crisis_detection.is_crisis

\* process_message returns value without calling generate_response
ReturnEarly(th, op, input, value) ==
    /\ result' = [result EXCEPT ![th] =
                     [call  |-> [IdleFrame EXCEPT !.op = op, !.input = input, !.start_time = now],
                      value |-> value]]
    /\ UNCHANGED <<gemini_service, now, frame, admitted, invoked, generated, stored>>

\* BestieService.process_message(message, history, topic)
ProcessMessage(th, message, history, topic, rnd) ==
    LET validation       == validate_message(message)
        crisis_detection == detect_crisis(validation.sanitized_text)
    IN  /\ frame[th].pc = "idle"
        /\ IF ~validation.is_valid
           THEN ReturnEarly(th, "process_message", message, ValidationErrorResult(validation))
           ELSE IF crisis_branch(crisis_detection)
                THEN ReturnEarly(th, "process_message", message,
                                 handle_crisis_response(crisis_detection))
                ELSE Advance(th, IdleFrame,
                             run_to_call(gemini_service["bestie"],
                                         [NewFrame("process_message", "bestie",
                                                   ChatPrompt(validation.sanitized_text,
                                                              history, topic),
                                                   7, validation.sanitized_text)
                                              EXCEPT !.input = message],
                                         now, rnd),
                             rnd)

\* ModerationService.moderate_post(text)
ModeratePost(th, text, rnd) ==
    /\ frame[th].pc = "idle"
    /\ Advance(th, IdleFrame,
               run_to_call(gemini_service["moderation"],
                           [NewFrame("moderate_post", "moderation", ModerationPrompt(text), 2, text)
                                EXCEPT !.input = text],
                           now, rnd),
               rnd)

\* the model call of thread th ends with outcome o
ModelReturns(th, o, rnd) ==
    /\ frame[th].pc = "wait"
    /\ Advance(th, frame[th],
               finish_response(gemini_service[frame[th].svc], frame[th], o, now, rnd),
               rnd)

\* GET /api-status: bestie_service.gemini_service.get_api_status()
GetStatus(th) ==
    LET got == get_api_status(gemini_service["bestie"], now)
    IN  /\ frame[th].pc = "idle"
        /\ gemini_service' = [gemini_service EXCEPT !["bestie"] = got.g]
        /\ result' = [result EXCEPT ![th] =
                         [call  |-> [IdleFrame EXCEPT !.op = "get_api_status", !.svc = "bestie",
                                                      !.start_time = now],
                          value |-> got.status]]
        /\ UNCHANGED <<now, frame, admitted, invoked, generated, stored>>

\* POST /reset-rate-limits
ResetRateLimits ==
    /\ gemini_service' = [gemini_service EXCEPT !["bestie"] = reset_rate_limits(@)]
    /\ UNCHANGED <<now, frame, result, admitted, invoked, generated, stored>>

\* time passes, to one of the instants
Tick(instants) ==
    /\ \E t \in instants : t > now /\ now' = t
    /\ UNCHANGED <<gemini_service, frame, result, admitted, invoked, generated, stored>>

-----------------------------------------------------------------------------
(* The gateway alone, one call at a time *)

MaxOver == 1

\* the instants at which something happens: the start, the last second of the
\* window that starts there, and the MaxOver seconds that follow
Instants == {0, WindowSeconds - 1} \cup { WindowSeconds - 1 + d : d \in 1..MaxOver }

Prompts == {"hi"}
Temperatures == {7}
RandomDraws == {0}

TextOutcome(text) == [kind |-> "text", text |-> text]
ErrorOutcome(msg) == [kind |-> "error", msg |-> msg]
TextErrorOutcome(msg) == [kind |-> "text_error", msg |-> msg]

ModelTexts == {"Hello yaar", ""}

Outcomes ==
    { TextOutcome("Hello yaar"),
      ErrorOutcome("429 Resource has been exhausted (e.g. check quota)."),
      ErrorOutcome("500 Internal error"),
      TextErrorOutcome("response.text requires a valid Part") }

Init ==
    /\ now = 0
    /\ \E configured \in BOOLEAN :
           gemini_service = [s \in Services |-> NewGeminiService(configured, 0)]
    /\ frame = [th \in Threads |-> IdleFrame]
    /\ result = [th \in Threads |-> NoResult]
    /\ admitted = [s \in Services |-> <<>>]
    /\ invoked = [s \in Services |-> <<>>]
    /\ generated = [s \in Services |-> <<>>]
    /\ stored = [s \in Services |-> [total |-> 0, at |-> 0, before |-> 0]]

Next ==
    \/ \E prompt \in Prompts, temperature \in Temperatures, rnd \in RandomDraws :
           Respond(1, "bestie", prompt, temperature, rnd)
    \/ \E o \in Outcomes, rnd \in RandomDraws : ModelReturns(1, o, rnd)
    \/ Tick(Instants)

Spec == Init /\ [][Next]_vars

-----------------------------------------------------------------------------
(* The gateway alone, one call at a time, around the expiry of a cache entry *)

MaxLate == 1

\* the start, and the instants just before, at and after cache_ttl
InstantsTTL == {0, cache_ttl - 1, cache_ttl} \cup { cache_ttl + d : d \in 1..MaxLate }

PromptsTTL == {"hi"}

OutcomesTTL ==
    { TextOutcome(text) : text \in ModelTexts }
    \cup { ErrorOutcome("429 Resource has been exhausted (e.g. check quota).") }

NextTTL ==
    \/ \E prompt \in PromptsTTL, temperature \in Temperatures, rnd \in RandomDraws :
           Respond(1, "bestie", prompt, temperature, rnd)
    \/ \E o \in OutcomesTTL, rnd \in RandomDraws : ModelReturns(1, o, rnd)
    \/ Tick(InstantsTTL)

SpecTTL == Init /\ [][NextTTL]_vars

-----------------------------------------------------------------------------
(* The chat handler, one message at a time *)

RECURSIVE Repeat(_, _)
\* str * n
Repeat(str, n) ==
    IF n = 0 THEN ""
    ELSE IF n % 2 = 1 THEN str \o Repeat(str, n - 1)
    ELSE Repeat(str \o str, n \div 2)

\* a message one character over the limit
Oversized == Repeat("a", MAX_MESSAGE_LENGTH + 1)

Messages ==
    { "", "   ", "hello", " I want to KILL myself ", "i wish i was dead", Oversized }

\* two instants of one window
InstantsApp == {0, WindowSeconds - 1}

OutcomesChat == { TextOutcome("Hello yaar"), ErrorOutcome("500 Internal error") }

NextChat ==
    \/ \E message \in Messages, rnd \in RandomDraws :
           ProcessMessage(1, message, <<>>, None, rnd)
    \/ \E o \in OutcomesChat, rnd \in RandomDraws : ModelReturns(1, o, rnd)
    \/ Tick(InstantsApp)

SpecChat == Init /\ [][NextChat]_vars

-----------------------------------------------------------------------------
(* The chat handler and the moderation handler, one request at a time, with *)
(* a model that fails each call, so that no request is served by a cache    *)

Posts == { "nice post" }

OutcomesApp == { ErrorOutcome("500 Internal error") }

NextApp ==
    \/ \E rnd \in RandomDraws : ProcessMessage(1, "hello", <<>>, None, rnd)
    \/ \E text \in Posts, rnd \in RandomDraws : ModeratePost(1, text, rnd)
    \/ \E o \in OutcomesApp, rnd \in RandomDraws : ModelReturns(1, o, rnd)
    \/ Tick(InstantsApp)

SpecApp == Init /\ [][NextApp]_vars

-----------------------------------------------------------------------------
(* The gateway with generate_response_async: each call runs on a worker     *)
(* thread of the default executor, and the threads' steps interleave.  The  *)
(* code takes no lock, so a thread can be preempted between the cache       *)
(* lookup, _check_rate_limit, request_timestamps.append and the model call. *)

\* a worker thread picks up generate_response(prompt, temperature) on service s
Call(th, s, prompt, temperature) ==
    /\ frame[th].pc = "idle"
    /\ frame' = [frame EXCEPT ![th] = NewFrame("generate_response", s, prompt, temperature, "")]
    /\ UNCHANGED <<gemini_service, now, result, admitted, invoked, generated, stored>>

\* thread th runs lines 149-156
Lookup(th, rnd) ==
    /\ frame[th].pc = "start"
    /\ Advance(th, frame[th],
               start_response(gemini_service[frame[th].svc], frame[th], now, rnd), rnd)

\* thread th runs lines 158-161
Check(th, rnd) ==
    /\ frame[th].pc = "check"
    /\ Advance(th, frame[th],
               check_step(gemini_service[frame[th].svc], frame[th], now, rnd), rnd)

\* thread th runs lines 163-183
AppendAndCall(th, rnd) ==
    /\ frame[th].pc = "append"
    /\ Advance(th, frame[th],
               append_step(gemini_service[frame[th].svc], frame[th], now, rnd), rnd)

OutcomesConc == { TextOutcome("Hello yaar"), ErrorOutcome("500 Internal error") }

NextConc ==
    \/ \E th \in Threads, prompt \in Prompts, temperature \in Temperatures :
           Call(th, "bestie", prompt, temperature)
    \/ \E th \in Threads, rnd \in RandomDraws : Lookup(th, rnd)
    \/ \E th \in Threads, rnd \in RandomDraws : Check(th, rnd)
    \/ \E th \in Threads, rnd \in RandomDraws : AppendAndCall(th, rnd)
    \/ \E th \in Threads, o \in OutcomesConc, rnd \in RandomDraws : ModelReturns(th, o, rnd)
    \/ Tick(InstantsApp)

SpecConc == Init /\ [][NextConc]_vars

-----------------------------------------------------------------------------
(* The gateway alone filling its cache: a client that asks a new prompt     *)
(* each time, or its first prompt again, one call at a time, and waits a    *)
(* minute whenever the window is full.  The model answers every prompt      *)
(* with a text; its first answer to the first prompt may be the empty text. *)

MaxCacheMinutes == 10

\* the n-th prompt of the client
PromptNo(n) == "q" \o ToString(n)

\* the prompts the model has answered so far
Answered == DOMAIN generated["bestie"]

AskNew(rnd) ==
    Respond(1, "bestie", PromptNo(Cardinality(Answered) + 1), 7, rnd)

AskAgain(rnd) ==
    Respond(1, "bestie", PromptNo(1), 7, rnd)

OutcomesCache(prompt) ==
    { TextOutcome("Hello yaar") }
    \cup (IF prompt = PromptNo(1) /\ <<prompt, 7>> \notin Answered
          THEN { TextOutcome("") }
          ELSE {})

WaitAMinute ==
    /\ frame[1].pc = "idle"
    /\ Len(PurgeOld(gemini_service["bestie"].request_timestamps, now)) >= requests_per_minute
    /\ now < MaxCacheMinutes * WindowSeconds
    /\ Tick({now + WindowSeconds})

NextCache ==
    \/ \E rnd \in RandomDraws : AskNew(rnd)
    \/ \E rnd \in RandomDraws : AskAgain(rnd)
    \/ \E o \in OutcomesCache(frame[1].prompt), rnd \in RandomDraws : ModelReturns(1, o, rnd)
    \/ WaitAMinute

SpecCache == Init /\ [][NextCache]_vars

-----------------------------------------------------------------------------
(* The gateway alone against a model that runs out of quota: a client that  *)
(* asks one of two prompts, one call at a time, and after a failure waits   *)
(* until the backoff is over.                                               *)

MaxFailures == 5

PromptsBackoff == {"hi", "exam pressure"}

QuotaError == "429 Resource has been exhausted (e.g. check quota)."
QuotaErrorWithDelay == "429 Quota exceeded. retry_delay { seconds: 30 }"

OutcomesBackoff ==
    { TextOutcome("Hello yaar"), ErrorOutcome(QuotaError), ErrorOutcome(QuotaErrorWithDelay) }

\* the client waits until backoff_until
WaitOutBackoff ==
    /\ frame[1].pc = "idle"
    /\ InBackoff(gemini_service["bestie"], now)
    /\ gemini_service["bestie"].consecutive_failures < MaxFailures
    /\ Tick({gemini_service["bestie"].backoff_until[1]})

NextBackoff ==
    \/ \E prompt \in PromptsBackoff, temperature \in Temperatures, rnd \in RandomDraws :
           Respond(1, "bestie", prompt, temperature, rnd)
    \/ \E o \in OutcomesBackoff, rnd \in RandomDraws : ModelReturns(1, o, rnd)
    \/ WaitOutBackoff

SpecBackoff == Init /\ [][NextBackoff]_vars

-----------------------------------------------------------------------------
(* The gateway alone, one call at a time, around midnight *)

MaxDays == 1

SecondsPerDay == 24 * 60 * 60

\* the start, the last second of the first day and the first second of each
\* day that follows
InstantsDay ==
    {0, SecondsPerDay - 1} \cup { day * SecondsPerDay : day \in 1..MaxDays }

OutcomesDay == { TextOutcome("Hello yaar"), TextOutcome(""), ErrorOutcome(QuotaError) }

NextDay ==
    \/ \E prompt \in Prompts, temperature \in Temperatures, rnd \in RandomDraws :
           Respond(1, "bestie", prompt, temperature, rnd)
    \/ \E o \in OutcomesDay, rnd \in RandomDraws : ModelReturns(1, o, rnd)
    \/ Tick(InstantsDay)

SpecDay == Init /\ [][NextDay]_vars

-----------------------------------------------------------------------------
(* The gateway alone, one call after another within one second, spending   *)
(* its daily quota: a short prompt and a long one, ten of which make up the *)
(* day's tokens                                                             *)

\* a prompt of 19400 characters, estimated at 5000 tokens
LongPrompt == "anxious " \o Repeat("a", (max_tokens_per_day \div 10 - 150) * 4 - 8)

PromptsQuota == {"hi", LongPrompt}

OutcomesQuota == { TextOutcome("Hello yaar"), TextOutcome("") }

NextQuota ==
    \/ \E prompt \in PromptsQuota, temperature \in Temperatures, rnd \in RandomDraws :
           Respond(1, "bestie", prompt, temperature, rnd)
    \/ \E o \in OutcomesQuota, rnd \in RandomDraws : ModelReturns(1, o, rnd)

SpecQuota == Init /\ [][NextQuota]_vars

-----------------------------------------------------------------------------
(* The gateway alone, one call at a time within one second, with prompts   *)
(* of every topic and a model that answers or fails                         *)

PromptsFallback ==
    { "exam pressure", "I feel Anxious about my exam", "feeling DOWN about grades",
      "hello" }

DrawsFallback == {0, 6}

OutcomesFallback ==
    { TextOutcome("Hello yaar"), ErrorOutcome(QuotaError), ErrorOutcome("500 Internal error") }

NextFallback ==
    \/ \E prompt \in PromptsFallback, temperature \in Temperatures, rnd \in DrawsFallback :
           Respond(1, "bestie", prompt, temperature, rnd)
    \/ \E o \in OutcomesFallback, rnd \in DrawsFallback : ModelReturns(1, o, rnd)

SpecFallback == Init /\ [][NextFallback]_vars

-----------------------------------------------------------------------------
(* The safety service alone: detect_crisis applied to texts, by services   *)
(* constructed with the default keyword list and with configured ones       *)

KeywordLists ==
    { crisis_keywords, <<"Lonely", "sad", "die">>, <<"hopeless">>, <<"Kill Myself", "panic">> }

Texts ==
    { "", "I want to kill myself", "sometimes I feel like I'm not worth living",
      "I'm a bit sad today", "SUICIDE hotline", "I think about Death and suicide",
      "my deadline is tomorrow", "so lonely and HOPELESS", "hello",
      "I don't want to live", "better off DEAD", "panic attack", "I will end it",
      "i want to hurt myself" }

\* a service constructed with keywords, asked about message
DetectCrisis(th, keywords, message) ==
    /\ result' = [result EXCEPT ![th] =
                     [call  |-> [IdleFrame EXCEPT !.op = "detect_crisis", !.input = message],
                      value |-> [crisis_keywords |-> keywords,
                                 detection |-> detect_crisis_with(keywords, message)]]]
    /\ UNCHANGED <<gemini_service, now, frame, admitted, invoked, generated, stored>>

NextDetect ==
    \E keywords \in KeywordLists, message \in Texts : DetectCrisis(1, keywords, message)

SpecDetect == Init /\ [][NextDetect]_vars

-----------------------------------------------------------------------------
(* The safety service alone: validate_message applied to messages around   *)
(* the length limit, bare and padded with whitespace                        *)

MessagesAround ==
    { "", "   ", "\t\n", "hello", "  hello \n",
      Repeat("a", MAX_MESSAGE_LENGTH - 1), Repeat("a", MAX_MESSAGE_LENGTH), Oversized,
      Repeat("ab c", 750),
      "  " \o Repeat("a", MAX_MESSAGE_LENGTH - 1) \o "   ",
      " " \o Oversized \o "\n" }

\* safety_service.validate_message(message)
ValidateMessage(th, message) ==
    /\ result' = [result EXCEPT ![th] =
                     [call  |-> [IdleFrame EXCEPT !.op = "validate_message", !.input = message],
                      value |-> validate_message(message)]]
    /\ UNCHANGED <<gemini_service, now, frame, admitted, invoked, generated, stored>>

NextValidate == \E th \in Threads, message \in MessagesAround : ValidateMessage(th, message)

SpecValidate == Init /\ [][NextValidate]_vars

-----------------------------------------------------------------------------
(* The moderation service judging posts, one at a time, with a model that  *)
(* answers in JSON, in part of it, in prose, or fails                       *)

PostsMod == {"nice post", "I will KILL you"}

OutcomesMod ==
    { TextOutcome(" " \o JsonBlock \o "\n"), TextOutcome(JsonDecisionOnly),
      TextOutcome(JsonEmptyObject), TextOutcome(JsonArray), TextOutcome(JsonReview),
      TextOutcome("Sure! Here is the JSON: {decision: allow}"),
      ErrorOutcome("500 Internal error") }

NextMod ==
    \/ \E text \in PostsMod, rnd \in RandomDraws : ModeratePost(1, text, rnd)
    \/ \E o \in OutcomesMod, rnd \in RandomDraws : ModelReturns(1, o, rnd)

SpecMod == Init /\ [][NextMod]_vars

-----------------------------------------------------------------------------
(* The gateway alone, one call after another within one second, with two   *)
(* long prompts: one may be answered from the cache while the other uses up *)
(* the window and the quota or starts a backoff                             *)

LongPromptB == "anxious " \o Repeat("b", Len(LongPrompt) - 8)

PromptsHit == {LongPrompt, LongPromptB}

OutcomesHit == { TextOutcome("Hello yaar"), TextOutcome(""), ErrorOutcome(QuotaError) }

NextHit ==
    \/ \E prompt \in PromptsHit, temperature \in Temperatures, rnd \in RandomDraws :
           Respond(1, "bestie", prompt, temperature, rnd)
    \/ \E o \in OutcomesHit, rnd \in RandomDraws : ModelReturns(1, o, rnd)

SpecHit == Init /\ [][NextHit]_vars

-----------------------------------------------------------------------------
(* The gateway alone, one call at a time, with a model that fails in        *)
(* several ways                                                             *)

ModelNotFound ==
    "404 models/gemini-pro is not found for API version v1beta, or is not supported for generateContent."

OutcomesErrors ==
    { TextOutcome("Hello yaar"), ErrorOutcome(QuotaError), ErrorOutcome("500 Internal error"),
      ErrorOutcome(ModelNotFound) }

NextErrors ==
    \/ \E prompt \in Prompts, temperature \in Temperatures, rnd \in RandomDraws :
           Respond(1, "bestie", prompt, temperature, rnd)
    \/ \E o \in OutcomesErrors, rnd \in RandomDraws : ModelReturns(1, o, rnd)
    \/ Tick(Instants)

SpecErrors == Init /\ [][NextErrors]_vars

-----------------------------------------------------------------------------
(* The gateway with generate_response_async, followed until the first       *)
(* timestamp of the window is more than a minute old, against a model that *)
(* fails each time, so that no call is served from the cache                *)

\* the start, and the instants just before and just after the end of its minute
InstantsLate == {0, WindowSeconds - 1, WindowSeconds + 1}

NextConcLate ==
    \/ \E th \in Threads, prompt \in Prompts, temperature \in Temperatures :
           Call(th, "bestie", prompt, temperature)
    \/ \E th \in Threads, rnd \in RandomDraws : Lookup(th, rnd)
    \/ \E th \in Threads, rnd \in RandomDraws : Check(th, rnd)
    \/ \E th \in Threads, rnd \in RandomDraws : AppendAndCall(th, rnd)
    \/ \E th \in Threads, o \in {ErrorOutcome("500 Internal error")}, rnd \in RandomDraws :
           ModelReturns(th, o, rnd)
    \/ Tick(InstantsLate)

SpecConcLate == Init /\ [][NextConcLate]_vars

-----------------------------------------------------------------------------
(* The gateway with prompts and temperatures whose keys are built from the  *)
(* same pieces, against a model that answers differently each time or fails *)

PromptsKeys == {"hi", "hi_0.7"}

TemperaturesKeys == {2, 7}

OutcomesKeys ==
    { TextOutcome("Hello yaar"), TextOutcome("Namaste dost"), ErrorOutcome("500 Internal error") }

NextKeys ==
    \/ \E prompt \in PromptsKeys, temperature \in TemperaturesKeys, rnd \in RandomDraws :
           Respond(1, "bestie", prompt, temperature, rnd)
    \/ \E o \in OutcomesKeys, rnd \in RandomDraws : ModelReturns(1, o, rnd)

SpecKeys == Init /\ [][NextKeys]_vars

-----------------------------------------------------------------------------
(* The gateway asked for its status around midnight *)

NextDayStatus ==
    \/ NextDay
    \/ GetStatus(1)

SpecDayStatus == Init /\ [][NextDayStatus]_vars

-----------------------------------------------------------------------------
(* The gateway asked for its status while one caller spends the day's       *)
(* budget: two calls of HalfPrompt leave less than the estimate of the      *)
(* shortest prompt                                                          *)

\* a prompt whose estimate is 25 tokens short of half the daily budget
HalfPrompt == "anxious " \o Repeat("a", (max_tokens_per_day \div 2 - 25 - 150) * 4 - 8)

PromptsQuotaStatus == {"hi", HalfPrompt}

NextQuotaStatus ==
    \/ \E prompt \in PromptsQuotaStatus, temperature \in Temperatures, rnd \in RandomDraws :
           Respond(1, "bestie", prompt, temperature, rnd)
    \/ \E o \in {TextOutcome("")}, rnd \in RandomDraws : ModelReturns(1, o, rnd)
    \/ GetStatus(1)

SpecQuotaStatus == Init /\ [][NextQuotaStatus]_vars

-----------------------------------------------------------------------------
(* The gateway with calls of the long prompt on several executor threads:   *)
(* a thread runs up to its model call without a break, and the calls        *)
(* return in any order                                                      *)

NextQuotaConc ==
    \/ \E th \in Threads, temperature \in Temperatures, rnd \in RandomDraws :
           Respond(th, "bestie", LongPrompt, temperature, rnd)
    \/ \E th \in Threads, o \in {TextOutcome("")}, rnd \in RandomDraws : ModelReturns(th, o, rnd)

SpecQuotaConc == Init /\ [][NextQuotaConc]_vars

-----------------------------------------------------------------------------
(* The gateway with its status endpoints: calls handled one at a time, the  *)
(* status read and the rate limits reset in between                         *)

MaxAdmitted == 3

OutcomesStatus == { TextOutcome("Hello yaar"), ErrorOutcome(QuotaError) }

\* the reset, as long as few calls have been admitted
ResetEarly ==
    /\ Len(admitted["bestie"]) < MaxAdmitted
    /\ ResetRateLimits

NextStatus ==
    \/ \E prompt \in Prompts, temperature \in Temperatures, rnd \in RandomDraws :
           Respond(1, "bestie", prompt, temperature, rnd)
    \/ \E o \in OutcomesStatus, rnd \in RandomDraws : ModelReturns(1, o, rnd)
    \/ GetStatus(1)
    \/ ResetEarly
    \/ Tick(InstantsApp)

SpecStatus == Init /\ [][NextStatus]_vars

-----------------------------------------------------------------------------
(* One call at a time on an executor thread that runs every statement it   *)
(* is given; whether and when generate_content returns is left to the model *)

\* thread th runs its next statements, up to the model call or the return
Runs(th) ==
    \E rnd \in RandomDraws : Lookup(th, rnd) \/ Check(th, rnd) \/ AppendAndCall(th, rnd)

NextLive ==
    \/ \E prompt \in Prompts, temperature \in Temperatures :
           Call(1, "bestie", prompt, temperature)
    \/ \E rnd \in RandomDraws : Lookup(1, rnd)
    \/ \E rnd \in RandomDraws : Check(1, rnd)
    \/ \E rnd \in RandomDraws : AppendAndCall(1, rnd)
    \/ \E o \in OutcomesConc, rnd \in RandomDraws : ModelReturns(1, o, rnd)
    \/ Tick(InstantsApp)

SpecLive == Init /\ [][NextLive]_vars /\ WF_vars(Runs(1))

-----------------------------------------------------------------------------
(* Claims *)

\* how many of the timestamps fall in the 60 seconds that end at t, t included
CountIn(timestamps, t) ==
    Cardinality({ i \in 1..Len(timestamps) :
                    timestamps[i] > t - WindowSeconds /\ timestamps[i] <= t })

\* C1: with the calls handled one after another, at most requests_per_minute (10)
\* requests are admitted past the rate limiter, and so at most 10 model calls are
\* made, in any trailing 60-second window (t-60, t].  The count over a window is
\* greatest for a window that ends at an admission, so those are the windows checked.
C1_RateWindow ==
    \A s \in Services :
        /\ \A i \in 1..Len(admitted[s]) :
               CountIn(admitted[s], admitted[s][i]) <= requests_per_minute
        /\ \A i \in 1..Len(invoked[s]) :
               CountIn(invoked[s], invoked[s][i]) <= requests_per_minute

\* more than 10 requests were admitted in all, and the window that ends now is full
C1_Witness ==
    /\ Len(admitted["bestie"]) > requests_per_minute
    /\ CountIn(admitted["bestie"], now) = requests_per_minute

\* C4: with the calls handled one at a time, no model call is issued at an instant
\* before backoff_until; a request that arrives during the backoff and misses the
\* cache gets a fallback and the model is not invoked.
C4_NoCallInBackoff ==
    \A th \in Threads :
        /\ frame[th].pc = "wait" =>
               ~(/\ gemini_service[frame[th].svc].backoff_until # None
                 /\ frame[th].call_time[1] < gemini_service[frame[th].svc].backoff_until[1])
        /\ (result[th].call.in_backoff /\ result[th].call.source # "cache") =>
               /\ result[th].call.source = "fallback"
               /\ result[th].call.call_time = None

\* after a model call failed, a request arrived during the backoff and was refused
C4_Witness ==
    /\ invoked["bestie"] # <<>>
    /\ result[1].call.in_backoff
    /\ result[1].call.source = "fallback"

\* C5: generate_response never raises: whatever the state and whatever the outcome
\* of the model call, it returns a text, which is the cached text, the model's
\* text or a fallback template.
C5_NeverRaises ==
    \A th \in Threads :
        result[th].call.op = "generate_response" =>
            /\ ~result[th].call.raised
            /\ result[th].value = Some(result[th].call.ret)
            /\ result[th].call.source \in {"cache", "model", "fallback"}
            /\ result[th].call.source = "cache" =>
                   /\ result[th].call.prior # None
                   /\ result[th].call.ret = result[th].call.prior[1].text
            /\ result[th].call.source = "model" =>
                   /\ result[th].call.call_time # None
                   /\ result[th].call.ret \in ModelTexts
            /\ result[th].call.source = "fallback" =>
                   result[th].call.ret \in FallbackTemplates

\* the model was called, its call failed, and the caller got a fallback text
C5_Witness ==
    /\ result[1].call.op = "generate_response"
    /\ result[1].call.call_time # None
    /\ result[1].call.source = "fallback"
    /\ result[1].value # None

\* the calls of generate_response that have returned
Returned == { result[th].call : th \in { x \in Threads : result[x].call.op = "generate_response" } }

\* the age, when call c started, of the last text the model produced for its key
PriorAge(c) == c.start_time - c.prior[1].time

\* C3 as stated: a call whose prompt and temperature already obtained a text from
\* the model less than cache_ttl seconds ago returns that very text without a model
\* call, and once cache_ttl seconds have elapsed the call invokes the model again.
C3_AsStated ==
    \A c \in Returned :
        c.prior # None =>
            /\ PriorAge(c) < cache_ttl =>
                   /\ c.source = "cache"
                   /\ c.ret = c.prior[1].text
                   /\ c.call_time = None
            /\ PriorAge(c) >= cache_ttl => c.call_time # None

\* the texts, other than the last one of call c's key, that had been stored when c
\* started, at the instant that one was stored or later
StoredSince(c) == c.stored_before - c.prior[1].before - 1

\* C3, amended: a call whose prompt and temperature obtained a non-empty text from
\* the model at most cache_ttl seconds ago, with fewer than CacheCapacity other
\* texts stored from that instant on, returns that very text without a model call;
\* an empty text is not served from the cache; and once more than cache_ttl seconds
\* have elapsed the call is not served from the cache: it invokes the model if the
\* limiter and the quota let it, and returns a fallback if not.
C3_CachedWithinTTL ==
    \A c \in Returned :
        c.prior # None =>
            /\ (/\ PriorAge(c) <= cache_ttl
                /\ c.prior[1].text # ""
                /\ StoredSince(c) < CacheCapacity) =>
                   /\ c.source = "cache"
                   /\ c.ret = c.prior[1].text
                   /\ c.call_time = None
                   /\ c.admitted_at = None
            /\ c.prior[1].text = "" => c.source # "cache"
            /\ PriorAge(c) > cache_ttl =>
                   /\ c.source # "cache"
                   /\ c.call_time = None => c.source = "fallback"

\* a call was served from the cache some time after the model produced the text,
\* and before its lifetime ended
C3_Witness ==
    \E c \in Returned :
        /\ c.source = "cache"
        /\ c.prior # None
        /\ PriorAge(c) > 0
        /\ PriorAge(c) < cache_ttl

\* the entry that call c found under its key is no longer in the cache
EntryGone(c) ==
    \A e \in Range(gemini_service[c.svc].response_cache) :
        ~(e.key = c.cache_key /\ e.timestamp = c.cached_at[1])

\* the calls that are past the cache lookup: returned, or waiting for the model
Looked ==
    Returned \cup { frame[th] : th \in { x \in Threads : frame[x].pc = "wait" } }

\* C10 as stated: a lookup returns the entry's text only while the entry is younger
\* than cache_ttl; at an age of cache_ttl or more it misses and removes the entry.
C10_AsStated ==
    \A c \in Looked :
        /\ c.source = "cache" =>
               /\ c.cached_at # None
               /\ c.start_time - c.cached_at[1] < cache_ttl
        /\ (c.cached_at # None /\ c.start_time - c.cached_at[1] >= cache_ttl) =>
               /\ c.source # "cache"
               /\ EntryGone(c)

\* C10, amended: a lookup returns the entry's text only while the entry's age is at
\* most cache_ttl (an entry exactly cache_ttl seconds old is still served); at an
\* age above cache_ttl the lookup misses and removes the entry.
C10_ExpiryAfterTTL ==
    \A c \in Looked :
        /\ c.source = "cache" =>
               /\ c.cached_at # None
               /\ c.start_time - c.cached_at[1] <= cache_ttl
        /\ (c.cached_at # None /\ c.start_time - c.cached_at[1] > cache_ttl) =>
               /\ c.source # "cache"
               /\ EntryGone(c)

\* a lookup found an entry older than cache_ttl, and the call went on past the cache
C10_Witness ==
    \E c \in Looked :
        /\ c.cached_at # None
        /\ c.start_time - c.cached_at[1] > cache_ttl
        /\ c.source # "cache"

\* the static safety message of a severity
SafetyMessage(severity) ==
    CASE severity = "high" -> CrisisHigh
      [] severity = "medium" -> CrisisMedium
      [] OTHER -> CrisisLow

\* C2: a process_message call reaches the gateway only if validate_message found the
\* message valid and detect_crisis found no crisis in the sanitized text; for an
\* invalid message the caller gets a validation error, and for a crisis the static
\* safety message of the detected severity with crisis_detected true, in both cases
\* with no model call and the gateway state unchanged.
C2_GatewayOnlyWhenSafe ==
    [][\A th \in Threads :
          LET c == result'[th].call
              v == result'[th].value
              validation == validate_message(c.input)
              crisis     == detect_crisis(validation.sanitized_text)
          IN  /\ frame'[th].op = "process_message" =>
                     /\ validate_message(frame'[th].input).is_valid
                     /\ ~detect_crisis(validate_message(frame'[th].input).sanitized_text).is_crisis
              /\ (result'[th] # result[th] /\ c.op = "process_message") =>
                     /\ c.source # "none" => (validation.is_valid /\ ~crisis.is_crisis)
                     /\ ~validation.is_valid =>
                            /\ v.type = "error"
                            /\ v.validation_error
                            /\ c.source = "none"
                            /\ UNCHANGED <<gemini_service, frame, admitted, invoked>>
                     /\ (validation.is_valid /\ crisis.is_crisis) =>
                            /\ v.type = "crisis"
                            /\ v.crisis_detected
                            /\ v.crisis_level = Some(crisis.severity)
                            /\ v.response = SafetyMessage(crisis.severity)
                            /\ c.source = "none"
                            /\ UNCHANGED <<gemini_service, frame, admitted, invoked>>
      ]_vars

\* after the model has been called for an earlier message, a message that speaks of
\* suicide got the safety message of high severity
C2_Witness ==
    /\ invoked["bestie"] # <<>>
    /\ result[1].call.op = "process_message"
    /\ result[1].call.source = "none"
    /\ result[1].value.type = "crisis"
    /\ result[1].value.crisis_level = Some("high")

\* C6: chat requests and moderation requests are admitted against one shared rate
\* window: the model calls issued for both kinds of request together, in any
\* trailing 60-second window, are at most requests_per_minute (10).
C6_SharedWindow ==
    \A s \in Services :
        \A i \in 1..Len(invoked[s]) :
            CountIn(invoked["bestie"], invoked[s][i])
                + CountIn(invoked["moderation"], invoked[s][i]) <= requests_per_minute

\* C7: with calls running concurrently on worker threads, the limiter's purge, count
\* and append behave as one atomic step: the requests that have passed the check
\* and not yet appended their timestamp, together with the timestamps of the
\* trailing 60 seconds, never exceed requests_per_minute (so with 9 timestamps in
\* the window two simultaneous requests are never both admitted), and at most 10
\* requests are admitted in any trailing 60-second window.
C7_AtomicAdmission ==
    \A s \in Services :
        /\ Cardinality({ th \in Threads : frame[th].pc = "append" /\ frame[th].svc = s })
               + CountIn(gemini_service[s].request_timestamps, now) <= requests_per_minute
        /\ \A i \in 1..Len(admitted[s]) :
               CountIn(admitted[s], admitted[s][i]) <= requests_per_minute

\* C8: with the calls handled one at a time, the response cache holds at most
\* CacheCapacity (100) entries in every state between calls, expired entries that
\* are still stored included.
C8_CacheBounded ==
    \A s \in Services : Len(gemini_service[s].response_cache) <= CacheCapacity

\* more than 100 texts have been stored under different prompts, and the cache is full
C8_Witness ==
    /\ Cardinality(Answered) > CacheCapacity
    /\ Len(gemini_service["bestie"].response_cache) = CacheCapacity

\* C9: when the cache holds 100 entries and a text is stored under a key that is not
\* in the cache, exactly one entry is removed, its timestamp is the least of the 100
\* that were stored (whatever was read since, and never the entry just inserted),
\* the other entries stay as they were, and the new entry is present afterwards.
C9_EvictsOldest ==
    [][\A s \in Services :
          LET old == gemini_service[s].response_cache
              new == gemini_service'[s].response_cache
          IN  (Len(old) = CacheCapacity /\ CacheKeys(new) \ CacheKeys(old) # {}) =>
                  /\ Len(new) = CacheCapacity
                  /\ Cardinality(CacheKeys(new) \ CacheKeys(old)) = 1
                  /\ Cardinality(CacheKeys(old) \ CacheKeys(new)) = 1
                  /\ \A e \in Range(old) :
                         IF e.key \in CacheKeys(new)
                         THEN e \in Range(new)
                         ELSE \A other \in Range(old) : e.timestamp <= other.timestamp
                  /\ \A th \in Threads :
                         (frame[th].pc = "wait" /\ frame[th].svc = s /\ frame'[th].pc = "idle") =>
                             \E e \in Range(new) :
                                 /\ e.key = frame[th].cache_key
                                 /\ e.response = result'[th].call.ret
                                 /\ e.timestamp = now
      ]_vars

\* the first prompt, answered anew after others had been answered, is still in the
\* cache at its first position, while a prompt answered after it has been evicted
C9_Witness ==
    /\ Len(gemini_service["bestie"].response_cache) = CacheCapacity
    /\ gemini_service["bestie"].response_cache[1].key = get_cache_key(PromptNo(1), 7)
    /\ gemini_service["bestie"].response_cache[1].timestamp > 0
    /\ \E n \in 2..Cardinality(Answered) :
           get_cache_key(PromptNo(n), 7) \notin CacheKeys(gemini_service["bestie"].response_cache)

\* the error text carries the hint of a short delay
HasDelayHint(msg) == Contains(msg, "retry_delay") \/ Contains(msg, "30")

\* the backoff, in seconds, of the k-th consecutive failure with error text msg
ExpectedBackoff(msg, k) ==
    IF HasDelayHint(msg) THEN 35 ELSE IF 2 ^ k * 30 < 600 THEN 2 ^ k * 30 ELSE 600

\* C11: a failure classified as a rate-limit failure increments consecutive_failures
\* by one and sets backoff_until to now + d, with d = 35 if the error text contains
\* "retry_delay" or "30" and d = min(2^k * 30, 600) otherwise, k being the count
\* after the increment; a model call that returns resets the count to 0, and any
\* other failure leaves count and backoff alone; d never exceeds 600.
C11_BackoffDuration ==
    [][\A th \in Threads :
          (frame[th].pc = "wait" /\ frame'[th].pc = "idle") =>
              LET g  == gemini_service[frame[th].svc]
                  g2 == gemini_service'[frame[th].svc]
                  o  == result'[th].call.outcome[1]
                  k  == (IF o.kind = "error" THEN g.consecutive_failures ELSE 0) + 1
              IN  IF o.kind = "text"
                  THEN /\ g2.consecutive_failures = 0
                       /\ g2.backoff_until = g.backoff_until
                  ELSE IF IsRateLimitError(o.msg)
                  THEN /\ g2.consecutive_failures = k
                       /\ g2.backoff_until = Some(now + ExpectedBackoff(o.msg, k))
                       /\ g2.backoff_until[1] - now <= 600
                  ELSE /\ g2.consecutive_failures = k - 1
                       /\ g2.backoff_until = g.backoff_until
      ]_vars

\* after five failures in a row the backoff stands at its ceiling of 600 seconds
C11_Witness ==
    /\ gemini_service["bestie"].consecutive_failures >= 5
    /\ gemini_service["bestie"].backoff_until = Some(now + 600)

\* the call that has just failed for the first time since the count was 0, with an
\* error text that carries no hint of a short delay
FirstPlainFailure ==
    /\ result[1].call.outcome # None
    /\ result[1].call.outcome[1].kind = "error"
    /\ IsRateLimitError(result[1].call.outcome[1].msg)
    /\ ~HasDelayHint(result[1].call.outcome[1].msg)
    /\ gemini_service["bestie"].consecutive_failures = 1
    /\ frame[1].pc = "idle"

\* C12 as stated: starting from a count of 0, the first failure whose error text
\* carries no hint of a short delay sets backoff_until to now + 30.
C12_AsStated ==
    FirstPlainFailure =>
        gemini_service["bestie"].backoff_until = Some(result[1].call.call_time[1] + 30)

\* C12, amended: starting from a count of 0, the first failure whose error text
\* carries no hint of a short delay sets backoff_until to now + 60 (2^1 * 30).
C12_FirstBackoffIs60 ==
    FirstPlainFailure =>
        gemini_service["bestie"].backoff_until = Some(result[1].call.call_time[1] + 60)

\* a first failure has been recorded and its backoff is running
C12_Witness ==
    /\ FirstPlainFailure
    /\ InBackoff(gemini_service["bestie"], now)

\* thread 1 makes a call in this step, and the call gets as far as _check_rate_limit
ChecksAdmission ==
    /\ frame[1].pc = "idle"
    /\ now' = now
    /\ gemini_service["bestie"].model
    /\ ~(frame'[1].pc = "idle" /\ result'[1].call.source = "cache")

\* C13: the first admission check on a date later than last_reset_date sets
\* daily_token_count to 0 and last_reset_date to that date, before the backoff, rate
\* and quota decisions and so whatever they are; the reset happens once per change
\* of date, at an admission check only, and between two resets daily_token_count
\* never decreases.
C13_DailyReset ==
    [][LET g  == gemini_service["bestie"]
           g2 == gemini_service'["bestie"]
       IN  /\ (ChecksAdmission /\ Date(now) > g.last_reset_date) =>
                  /\ g2.daily_token_count = 0
                  /\ g2.last_reset_date = Date(now)
           /\ g2.last_reset_date # g.last_reset_date =>
                  /\ ChecksAdmission
                  /\ Date(now) > g.last_reset_date
           /\ g2.last_reset_date = g.last_reset_date =>
                  g2.daily_token_count >= g.daily_token_count
      ]_vars

\* tokens were spent on the first day, and a call refused on the second day because
\* of a backoff has reset the counter all the same
C13_Witness ==
    /\ stored["bestie"].total > 0
    /\ gemini_service["bestie"].last_reset_date = 1
    /\ gemini_service["bestie"].daily_token_count = 0
    /\ result[1].call.in_backoff
    /\ result[1].call.source = "fallback"
    /\ result[1].call.start_time >= SecondsPerDay

\* floor(len(prompt) / 4) + 150
Estimate(prompt) == (Len(prompt) \div 4) + 150

\* C14: a call that reaches the quota test calls the model if and only if
\* daily_token_count + estimate < 50000 there, with estimate = floor(len(prompt)/4)
\* + 150; when the sum is 50000 or more, 50000 included, it returns a fallback and
\* the model is not called; and no model call is made without that test.
C14_QuotaGate ==
    \A c \in Looked :
        /\ c.call_time # None => c.admitted_at # None
        /\ c.admitted_at # None =>
               IF c.tokens_at_check + Estimate(c.prompt) < 50000
               THEN c.call_time # None
               ELSE /\ c.call_time = None
                    /\ c.source = "fallback"
                    /\ c.ret \in FallbackTemplates

\* a call whose estimate brought the day's count to 50000 exactly got a fallback
C14_Witness ==
    \E c \in Returned :
        /\ c.admitted_at # None
        /\ c.tokens_at_check + Estimate(c.prompt) = 50000
        /\ c.source = "fallback"

\* C15: daily_token_count grows only in the step in which a call returns text the
\* model generated, and then by that call's estimate; a call that ends with a
\* fallback (after a model error or after response.text raised) or with a cached
\* response does not increase it.
C15_SpendOnlyOnModelText ==
    [][\A s \in Services :
          gemini_service'[s].daily_token_count > gemini_service[s].daily_token_count
          => \E th \in Threads :
                /\ frame[th].pc = "wait"
                /\ frame[th].svc = s
                /\ frame'[th].pc = "idle"
                /\ result'[th].call.source = "model"
                /\ gemini_service'[s].daily_token_count
                      = gemini_service[s].daily_token_count + Estimate(frame[th].prompt)]_vars

\* C16: every call of generate_response eventually returns, whether or not the
\* model ever answers.
C16_EveryCallReturns ==
    \A th \in Threads : (frame[th].pc # "idle") ~> (frame[th].pc = "idle")

\* the calls of moderate_post that have returned
Moderated == { result[th] : th \in { x \in Threads : result[x].call.op = "moderate_post" } }

\* response is no JSON, or JSON without one of decision, confidence, reason
Incomplete(response) ==
    LET parsed == json_loads(Strip(response))
    IN  \/ parsed.error
        \/ parsed.dict = None
        \/ parsed.dict.decision = None
        \/ parsed.dict.confidence = None
        \/ parsed.dict.reason = None

\* the rule-based decision on text
RuleBased(r, text) ==
    /\ r.method = "rule_based"
    /\ r.confidence = 80
    /\ r.decision = IF \E i \in DOMAIN toxic_keywords : Contains(Lower(text), toxic_keywords[i])
                    THEN "block" ELSE "allow"

\* C17: when the text the gateway returned to moderate_post is no JSON, or is JSON
\* that lacks one of decision, confidence and reason, the result is the rule-based
\* decision: method rule_based, confidence 0.8, block exactly if the post contains a
\* toxic keyword in any case.
C17_RuleBasedWhenIncomplete ==
    \A r \in Moderated : Incomplete(r.call.ret) => RuleBased(r.value, r.call.arg)

\* the answers detect_crisis has given
Detected == { result[th] : th \in { x \in Threads : result[x].call.op = "detect_crisis" } }

\* the positions of the keywords that occur in text, whatever the case of either
Matching(keywords, text) ==
    { i \in DOMAIN keywords : Contains(Lower(text), Lower(keywords[i])) }

\* text contains one of the keywords of a tier
InTier(tier, text) == \E i \in DOMAIN tier : Contains(Lower(text), tier[i])

\* C18: detect_crisis reports a crisis exactly if a configured keyword occurs in the
\* text in any case; matched_patterns holds exactly the configured keywords that
\* occur; severity is none without a match, else high if a high-tier keyword occurs,
\* else medium if a medium-tier keyword occurs, else low; "I want to kill myself" is
\* high, "... not worth living" medium and "I'm a bit sad today" no crisis under the
\* default list.
C18_DetectCrisis ==
    \A r \in Detected :
        LET text     == r.call.input
            keywords == r.value.crisis_keywords
            d        == r.value.detection
        IN  /\ d.is_crisis <=> Matching(keywords, text) # {}
            /\ Range(d.matched_patterns) = { keywords[i] : i \in Matching(keywords, text) }
            /\ d.severity = IF Matching(keywords, text) = {} THEN "none"
                            ELSE IF InTier(high_severity_keywords, text) THEN "high"
                            ELSE IF InTier(medium_severity_keywords, text) THEN "medium"
                            ELSE "low"
            /\ keywords = crisis_keywords =>
                   /\ text = "I want to kill myself" => d.severity = "high"
                   /\ text = "sometimes I feel like I'm not worth living" => d.severity = "medium"
                   /\ text = "I'm a bit sad today" => ~d.is_crisis

\* a text with keywords of both tiers was rated high
C18_Witness ==
    \E r \in Detected :
        /\ InTier(high_severity_keywords, r.call.input)
        /\ InTier(medium_severity_keywords, r.call.input)
        /\ r.value.detection.is_crisis
        /\ r.value.detection.severity = "high"

\* a text that matched only a configured keyword of neither tier was rated low
C18_LowReached ==
    \E r \in Detected : r.value.detection.is_crisis /\ r.value.detection.severity = "low"

\* the answers validate_message has given
Validated == { result[th] : th \in { x \in Threads : result[x].call.op = "validate_message" } }

\* text is empty or holds whitespace only
Blank(text) == \A i \in 1..Len(text) : IsSpace(SubSeq(text, i, i))

\* the services are as they were constructed
Untouched ==
    \E configured \in BOOLEAN :
        gemini_service = [s \in Services |-> NewGeminiService(configured, 0)]

\* the answer v to a message that is blank, or else has length characters to measure
ValidationAsSpecified(v, blank, length) ==
    /\ IF blank THEN ~v.is_valid /\ v.reason = "Message cannot be empty"
       ELSE IF length > 2000 THEN ~v.is_valid /\ Len(v.sanitized_text) = 2000
       ELSE v.is_valid
    /\ Len(v.sanitized_text) <= 2000

\* C19 as stated: validate_message changes nothing and answers invalid, with the
\* emptiness reason, for an empty or whitespace-only text, invalid with the sanitized
\* text cut to exactly 2000 characters for a text of more than 2000 characters, and
\* valid otherwise; the sanitized text never has more than 2000 characters.
C19_AsStated ==
    /\ Untouched
    /\ \A r \in Validated :
           ValidationAsSpecified(r.value, Blank(r.call.input), Len(r.call.input))

\* C19 amended: the same, the length being that of the text without its leading
\* and trailing whitespace.
C19_ValidateStripped ==
    /\ Untouched
    /\ \A r \in Validated :
           ValidationAsSpecified(r.value, Blank(r.call.input),
                                 LastInk(r.call.input) - FirstInk(r.call.input) + 1)

\* a padded text over the limit was cut to 2000 characters and refused
C19_Witness ==
    \E r \in Validated :
        /\ FirstInk(r.call.input) > 1
        /\ LastInk(r.call.input) - FirstInk(r.call.input) + 1 > 2000
        /\ ~r.value.is_valid
        /\ Len(r.value.sanitized_text) = 2000

\* prompt holds, in any case, one of words
Mentions(prompt, words) == \E i \in DOMAIN words : Contains(Lower(prompt), words[i])

\* the templates of the first topic, in the order anxiety, low mood, academic
\* stress, that prompt mentions; the general ones when it mentions none
TopicTemplates(prompt) ==
    IF Mentions(prompt, AnxietyWords) THEN Range(AnxietyResponses)
    ELSE IF Mentions(prompt, SadnessWords) THEN Range(SadnessResponses)
    ELSE IF Mentions(prompt, AcademicWords) THEN Range(AcademicResponses)
    ELSE Range(GeneralResponses)

\* C20: a call that returns neither model text nor cached text (the model is not
\* configured, the service is in backoff, rate-limited or out of quota, or the model
\* call failed) returns a template of the first topic its prompt mentions, in the
\* order anxiety, low mood, academic stress, and a general template when it mentions
\* none; with the model not configured, "exam pressure" gets an academic-stress
\* template.
C20_FallbackByTopic ==
    \A c \in Returned :
        /\ c.source \notin {"model", "cache"} => c.ret \in TopicTemplates(c.prompt)
        /\ (~gemini_service[c.svc].model /\ c.prompt = "exam pressure") =>
               /\ c.source = "fallback"
               /\ c.ret \in Range(AcademicResponses)

\* the unconfigured service answered "exam pressure" with an academic-stress template
C20_Witness ==
    \E c \in Returned :
        /\ ~gemini_service[c.svc].model
        /\ c.prompt = "exam pressure"
        /\ c.source = "fallback"
        /\ c.ret \in Range(AcademicResponses)

\* a fallback was returned because of backoff, of the rate limit, of the quota
\* (under SpecQuota), and after a failed model call
C20_InBackoff == \E c \in Returned : c.source = "fallback" /\ c.in_backoff
C20_RateLimited ==
    \E c \in Returned :
        /\ c.source = "fallback" /\ gemini_service[c.svc].model
        /\ ~c.in_backoff /\ c.admitted_at = None
C20_OutOfQuota ==
    \E c \in Returned : c.source = "fallback" /\ c.admitted_at # None /\ c.call_time = None
C20_ModelFailed ==
    \E c \in Returned : c.source = "fallback" /\ c.outcome # None /\ c.prompt = "feeling DOWN about grades"

\* in this step a model call of service s ends, as the result says
CallEnds(s, th) ==
    /\ frame[th].pc = "wait"
    /\ frame[th].svc = s
    /\ frame'[th].pc = "idle"

\* C21: backoff_until changes only in a step in which a model call fails, which sets
\* it to a later instant than now; no other step (a successful model call, a cache
\* hit, a refusal, get_api_status, reset_rate_limits) clears it or moves it; and a
\* successful model call sets consecutive_failures to 0 and leaves backoff_until as
\* it was.
C21_BackoffOnlyByFailure ==
    [][\A s \in Services :
          /\ gemini_service'[s].backoff_until # gemini_service[s].backoff_until
                => /\ \E th \in Threads :
                          /\ CallEnds(s, th)
                          /\ result'[th].call.outcome # None
                          /\ result'[th].call.outcome[1].kind = "error"
                   /\ gemini_service'[s].backoff_until # None
                   /\ gemini_service'[s].backoff_until[1] > now
          /\ \A th \in Threads :
                (CallEnds(s, th) /\ result'[th].call.source = "model")
                => /\ gemini_service'[s].consecutive_failures = 0
                   /\ gemini_service'[s].backoff_until = gemini_service[s].backoff_until]_vars

\* C22: whatever text the model produced, the result of moderate_post has decision
\* allow or block, a confidence between 0 and 1 and method gemini or rule_based.
C22_ModerationResultShape ==
    \A r \in Moderated :
        /\ r.value.decision \in {"allow", "block"}
        /\ r.value.confidence \in 0..100
        /\ r.value.method \in {"gemini", "rule_based"}

\* in this step thread th calls generate_response, which returns at once or
\* comes to wait for the model
Calls(th) ==
    /\ frame[th].pc = "idle"
    /\ \/ frame'[th].pc = "wait"
       \/ result'[th] # result[th] /\ result'[th].call.op = "generate_response"

\* the call made in this step
Called(th) == IF frame'[th].pc = "wait" THEN frame'[th] ELSE result'[th].call

\* the entries the cache holds, before the step, for the key of call c, no older
\* than cache_ttl
LiveEntries(c) ==
    { e \in Range(gemini_service[c.svc].response_cache) :
          e.key = get_cache_key(c.prompt, c.temperature) /\ now - e.timestamp <= cache_ttl }

\* the call made in this step returned the text of entry e, and the service is as
\* it was
ServedFrom(th, e) ==
    /\ frame'[th].pc = "idle"
    /\ result'[th].call.source = "cache"
    /\ result'[th].call.ret = e.response
    /\ result'[th].call.admitted_at = None
    /\ result'[th].call.call_time = None
    /\ gemini_service' = gemini_service

\* C23 as stated: a call whose key has a non-expired cache entry returns the text of
\* that entry, in backoff, at the rate limit or out of quota as well, and leaves the
\* rate window, the token count, the reset date, the backoff, the failure count and
\* the cache as they were.
C23_AsStated ==
    [][\A th \in Threads :
          Calls(th) => \A e \in LiveEntries(Called(th)) : ServedFrom(th, e)]_vars

\* C23, amended: the same for a non-expired entry that holds a non-empty text.
C23_HitBeforeAdmission ==
    [][\A th \in Threads :
          Calls(th) => \A e \in LiveEntries(Called(th)) :
                           e.response # "" => ServedFrom(th, e)]_vars

\* a call was answered from the cache while the window of the service was full and
\* its quota too low for the prompt
C23_Witness ==
    \E c \in Returned :
        LET g == gemini_service[c.svc]
        IN  /\ c.source = "cache"
            /\ c.ret = "Hello yaar"
            /\ Len(PurgeOld(g.request_timestamps, now)) >= 10
            /\ g.daily_token_count + Estimate(c.prompt) >= 50000

\* a call was answered from the cache while the service was in backoff
C23_InBackoff ==
    \E c \in Returned :
        c.source = "cache" /\ InBackoff(gemini_service[c.svc], now)

\* the error text speaks of a quota, of a rate limit or of status 429
IndicatesRateLimit(msg) ==
    \/ Contains(Lower(msg), "quota")
    \/ Contains(msg, "429")
    \/ Contains(Lower(msg), "rate limit")
    \/ Contains(Lower(msg), "rate-limit")
    \/ Contains(Lower(msg), "ratelimit")

\* C24: when a model call fails, consecutive_failures grows by one and backoff_until
\* is set if and only if the error text speaks of a quota, a rate limit or 429; after
\* any other error both stay as they were; either way the cache is not written and
\* the call returns a fallback.
C24_BackoffIffRateLimitError ==
    [][\A s \in Services, th \in Threads :
          (CallEnds(s, th) /\ result'[th].call.outcome[1].kind = "error")
          => /\ IF IndicatesRateLimit(result'[th].call.outcome[1].msg)
                THEN /\ gemini_service'[s].consecutive_failures
                           = gemini_service[s].consecutive_failures + 1
                     /\ gemini_service'[s].backoff_until # None
                     /\ gemini_service'[s].backoff_until[1] > now
                ELSE /\ gemini_service'[s].consecutive_failures
                           = gemini_service[s].consecutive_failures
                     /\ gemini_service'[s].backoff_until = gemini_service[s].backoff_until
             /\ gemini_service'[s].response_cache = gemini_service[s].response_cache
             /\ result'[th].call.source = "fallback"
             /\ result'[th].call.ret \in FallbackTemplates]_vars

\* the model calls of service s that are under way
Waiting(s) == { th \in Threads : frame[th].pc = "wait" /\ frame[th].svc = s }

\* C25: with calls running on several threads, the quota test and the increment
\* act as one step: calls that are at the model together fit the day's budget
\* together, and daily_token_count stays below 50000.
C25_QuotaAtomic ==
    \A s \in Services :
        /\ gemini_service[s].daily_token_count < 50000
        /\ \A th1, th2 \in Waiting(s) :
               th1 # th2 =>
                   gemini_service[s].daily_token_count
                     + Estimate(frame[th1].prompt) + Estimate(frame[th2].prompt) < 50000

\* the answers of get_api_status
StatusResults == { result[th] : th \in { t \in Threads : result[t].call.op = "get_api_status" } }

\* C26: with calls handled one at a time daily_token_count stays below 50000,
\* so get_api_status never reports quota_exhausted, not even when the budget
\* left is below the estimate of every prompt.
C26_NeverExhausted ==
    /\ \A s \in Services : gemini_service[s].daily_token_count < 50000
    /\ \A r \in StatusResults : ~r.value.quota_exhausted

\* the status is asked when an empty prompt would be refused for lack of quota,
\* with room left in the rate window and no backoff
C26_Witness ==
    \E r \in StatusResults :
        /\ r.value.tokens_used_today + Estimate("") >= 50000
        /\ r.value.requests_this_minute < r.value.requests_per_minute_limit
        /\ ~r.value.in_backoff
        /\ ~r.value.quota_exhausted

\* the (prompt, temperature) pairs of service s whose key is that of cache entry e
PairsOf(s, e) == { k \in DOMAIN generated[s] : get_cache_key(k[1], k[2]) = e.key }

\* C27: every cache entry holds the text the model generated, in its last
\* successful call, for exactly the prompt and temperature of the entry's key,
\* never a fallback template, and a call served from the cache returns the text
\* generated for its own prompt and temperature.
C27_CacheHoldsModelTexts ==
    /\ \A s \in Services : \A e \in Range(gemini_service[s].response_cache) :
           /\ PairsOf(s, e) # {}
           /\ \A k \in PairsOf(s, e) : e.response = generated[s][k].text
           /\ e.response \notin FallbackTemplates
    /\ \A th \in Threads :
           (result[th].call.op = "generate_response" /\ result[th].call.source = "cache") =>
               LET c == result[th].call
               IN  /\ <<c.prompt, c.temperature>> \in DOMAIN generated[c.svc]
                   /\ c.ret = generated[c.svc][<<c.prompt, c.temperature>>].text
                   /\ c.ret \notin FallbackTemplates

\* a call is served from the cache while the cache holds another text for the
\* same prompt at the other temperature, and a fallback was returned before
C27_Witness ==
    \E th \in Threads :
        LET c == result[th].call
        IN  /\ c.op = "generate_response" /\ c.source = "cache"
            /\ \E e \in Range(gemini_service[c.svc].response_cache) :
                   /\ e.key \in { get_cache_key(c.prompt, t) : t \in TemperaturesKeys \ {c.temperature} }
                   /\ e.response # c.ret
            /\ Len(invoked[c.svc]) > stored[c.svc].total

\* the least element of a non-empty sequence of instants
Oldest(timestamps) == CHOOSE ts \in Range(timestamps) : \A other \in Range(timestamps) : ts <= other

\* thread th runs _check_rate_limit in this step
ChecksRate(th) == frame[th].pc = "check" /\ frame'[th] # frame[th]

\* the call passed _check_rate_limit in this step
PassesRate(th) == frame'[th].pc = "append"

\* C28: a call refused by the backoff test or by the rate limiter leaves no
\* timestamp of its own in request_timestamps; and with the model configured, no
\* backoff and quota for the prompt, a call that missed the cache and reaches
\* _check_rate_limit more than 60 seconds after the oldest timestamp in
\* request_timestamps passes it.
C28_AdmittedAfterAMinute ==
    [][\A th \in Threads :
          ChecksRate(th) =>
              LET s == frame[th].svc
                  g == gemini_service[s]
              IN  /\ ~PassesRate(th) =>
                         gemini_service'[s].request_timestamps
                             \in {g.request_timestamps, PurgeOld(g.request_timestamps, now)}
                  /\ ( /\ g.model
                       /\ ~InBackoff(g, now)
                       /\ ~QuotaExceeded(DailyReset(g, now), Estimate(frame[th].prompt))
                       /\ g.request_timestamps # <<>>
                       /\ now > Oldest(g.request_timestamps) + WindowSeconds )
                     => PassesRate(th)]_vars

\* the answers of a service constructed with the default CRISIS_KEYWORDS
DetectedByDefault == { r \in Detected : r.value.crisis_keywords = crisis_keywords }

\* C29: with the default keyword list detect_crisis never rates a text low: a text
\* that matches a configured keyword contains a keyword of the high or of the
\* medium tier, is rated high or medium, and the static message chosen for it is
\* not the low-severity one.
C29_NeverLowByDefault ==
    \A r \in DetectedByDefault :
        LET d == r.value.detection
        IN  /\ d.severity # "low"
            /\ d.is_crisis =>
                   /\ \/ InTier(high_severity_keywords, r.call.input)
                      \/ InTier(medium_severity_keywords, r.call.input)
                   /\ d.severity \in {"high", "medium"}
                   /\ handle_crisis_response(d).response \in {CrisisHigh, CrisisMedium}

\* a text whose only keyword is "dead", inside the word deadline, was rated medium
\* by the default service
C29_Witness ==
    \E r \in DetectedByDefault :
        /\ r.value.detection.is_crisis
        /\ r.value.detection.matched_patterns = <<"dead">>
        /\ r.value.detection.severity = "medium"
        /\ handle_crisis_response(r.value.detection).response = CrisisMedium

\* get_api_status answers thread th in this step
AnswersStatus(th) ==
    /\ result'[th].call.op = "get_api_status"
    /\ \/ result[th].call.op # "get_api_status"
       \/ result'[th].call # result[th].call
       \/ result'[th].value # result[th].value

\* C30: get_api_status never reports the tokens of an earlier date as today's:
\* when it is called on a date later than last_reset_date, the tokens_used_today it
\* returns is 0.
C30_StatusOfToday ==
    [][\A th \in Threads :
          (AnswersStatus(th) /\ Date(now) > gemini_service["bestie"].last_reset_date)
              => result'[th].value.tokens_used_today = 0]_vars

====
